---- MODULE Spec2Model ----
(***************************************************************************)
(* Model of the book import / update / delete pipeline of the collection   *)
(* manager:                                                                *)
(*   services/book_service.py   add_scraped_album, update_book, delete_book*)
(*   scrapers/bubblebd/albums.py  scrape_album, _parse_date,               *)
(*                                _download_cover                          *)
(*   routes/books.py            the status codes of the endpoints          *)
(*   services/user_service.py   UserService.create_user                    *)
(*   models/book_series.py, models/book.py, models/user.py                 *)
(*                              the unique indexes                         *)
(* The document store is modelled by its operations (find_one, insert_one, *)
(* update_one, delete_one, count_documents) on three collections.  Every   *)
(* awaited store operation of a handler is one atomic step of the request  *)
(* that runs the handler, so that requests interleave exactly at the       *)
(* handler's await points.  The collections carry the indexes their models *)
(* declare (core/database_init.py creates them from Config.indexes), and   *)
(* the store accepts every document a handler builds.                      *)
(***************************************************************************)
EXTENDS Integers, Sequences, FiniteSets, TLC

\* ------------------------------------------------------------------ bounds
MaxBookId == 3        \* book identifiers the store hands out
MaxSeriesId == 2      \* series identifiers the store hands out
MaxClock == 1         \* readings of the clock
MaxUserId == 3        \* user identifiers the store hands out

\* --------------------------------------------------------------- constants
None == -1            \* Python's None (an absent / unset value)

Procs == {1, 2}       \* concurrent request handlers
SeqProcs == {1}       \* one request at a time

BookIds == 1..MaxBookId
SeriesIds == 1..MaxSeriesId

Titles == {"", "A"}
Totals == {None, 1, 2}
Numbers == {None, 1, 2}
Isbns == {"i1", "i2", "i3"}
Users == {"u1", "u2"} \* str(current_user.id) of the calling user
SeqUsers == {"u1"}

\* BubbleBDAlbum: the fields of the scraped record the orchestrator reads.
\* _extract_series_info returns ("", None) for a page without a series heading;
\* the standalone pages offered carry no volume number either.
\* scrape_album sets language 'fr' and status 'wanted' on every record.
Albums == {a \in [series_title : Titles, total_volumes : Totals,
                  series_number : Numbers, isbn : Isbns,
                  genre : {<<"bd">>}, language : {"fr"}, status : {"wanted"}] :
              a.series_title = "" => a.total_volumes = None /\ a.series_number = None}

\* the scraped records offered to concurrently running requests
ConcAlbums == {[series_title |-> "A", total_volumes |-> 1, series_number |-> 1,
                isbn |-> "i1", genre |-> <<"bd">>, language |-> "fr",
                status |-> "wanted"],
               [series_title |-> "A", total_volumes |-> 2, series_number |-> 2,
                isbn |-> "i2", genre |-> <<"bd">>, language |-> "fr",
                status |-> "wanted"]}

\* the scraped records offered to the runs in which requests are aborted
AbortAlbums == {a \in Albums : /\ a.total_volumes \in {None, 2}
                               /\ a.series_number \in {None, 1}
                               /\ a.isbn \in {"i1", "i2"}}

\* the scraped records offered to the runs that also update books: a
\* standalone album and the first volume of a series
AuditAlbums == {a \in Albums : /\ a.total_volumes = None
                               /\ \/ a.series_title = "" /\ a.isbn = "i1"
                                  \/ /\ a.series_title = "A" /\ a.isbn = "i2"
                                     /\ a.series_number = 1}

\* the scraped records offered to the runs that import, update and delete:
\* two volumes of one series and a standalone album
EditAlbums == ConcAlbums \cup {a \in Albums : a.series_title = "" /\ a.isbn = "i3"}

\* update_data: the fields a PUT /books/{book_id} supplies (a dict); the ones
\* offered carry no publication_date and no indexed field
EmptyDict == <<>>
UpdateDatas == {EmptyDict, "status" :> "owned", "series_number" :> 2}

\* the User objects POST /users/ may carry: username and email (the other
\* fields play no part in create_user)
Usernames == {"ann", "bob", "cat"}
Emails == {"ann@x.org", "bob@x.org", "cat@x.org"}
NewUsers == [username : Usernames, email : Emails]
NoUser == [username |-> "", email |-> ""]

\* ---- the pages a URL may answer with: what BeautifulSoup finds in them
\* the rows of table.characteristics as scrape_album reads them into char_data
\* (no table, or a table without rows: the empty dict)
Table(isbn, date, pages) ==
    (IF isbn = "" THEN EmptyDict ELSE "ISBN/EAN" :> isbn) @@
    ("Date de parution" :> date) @@ ("Nombre de pages" :> pages)

\* the "Tome n/m" text: its number and its total (None: not in the text)
NoTome == [number |-> None, total |-> None]

Days == {<<"5">>, <<"1", "2">>}
Years == {<<"2", "0", "1", "5">>}
MonthTokens == {"janv.", "févr.", "mars", "avr.", "mai", "juin", "juil.", "août",
                "sept.", "oct.", "nov.", "déc.", "mars.", "Mars"}
CoverSrcs == {<<"/covers/7094.jpg">>, <<"/covers/11107.jpg">>,
              <<"https://cdn.bubblebd.com", "/c/1.jpg">>, <<>>}

BasePage ==
    [fetch_ok |-> TRUE, has_h1 |-> TRUE, title |-> "T",
     table |-> Table("i1", <<<<"5">>, "mars", <<"2", "0", "1", "5">>>>, <<"4", "8">>),
     themes |-> <<>>, series_title |-> "", tome |-> NoTome,
     has_cover |-> FALSE, src |-> <<>>]

DatePages ==
    {[BasePage EXCEPT !.table = Table("i1", <<d, m, y>>, <<"4", "8">>)] :
        d \in Days, m \in MonthTokens, y \in Years}

CoverPages ==
    {[BasePage EXCEPT !.has_cover = TRUE, !.src = s,
                      !.table = Table(isbn, <<<<"5">>, "mars", <<"2", "0", "1", "5">>>>,
                                      <<"4", "8">>)] :
        s \in CoverSrcs, isbn \in {"i1", ""}}

SeriesPages ==
    {[BasePage EXCEPT !.series_title = "A", !.tome = t, !.themes = g,
                      !.table = Table(isbn, <<<<"5">>, "mars", <<"2", "0", "1", "5">>>>,
                                      <<"4", "8">>)] :
        t \in {NoTome, [number |-> 1, total |-> None], [number |-> 2, total |-> 2]},
        g \in {<<>>, <<"sf", "polar">>},
        isbn \in {"i1", "i2"}}

BrokenPages ==
    {[BasePage EXCEPT !.fetch_ok = FALSE],
     [BasePage EXCEPT !.has_h1 = FALSE],
     [BasePage EXCEPT !.table = EmptyDict],
     [BasePage EXCEPT !.table = Table("i1", <<<<"5">>, "mars">>, <<"4", "8">>)],
     [BasePage EXCEPT !.table = Table("i1", <<<<"5">>, "mars", <<"2", "0", "1", "5">>>>,
                                      <<"n", "c">>)]}

\* char_data without the row of the given label
WithoutRow(table, key) == [k \in DOMAIN table \ {key} |-> table[k]]

\* pages that differ in their page-count row: absent, "0", "-5"
PageCountPages ==
    {[BasePage EXCEPT !.table = WithoutRow(@, "Nombre de pages")],
     [BasePage EXCEPT !.table = Table("i1", <<<<"5">>, "mars", <<"2", "0", "1", "5">>>>,
                                      <<"0">>)],
     [BasePage EXCEPT !.table = Table("i1", <<<<"5">>, "mars", <<"2", "0", "1", "5">>>>,
                                      <<"-", "5">>)]}

\* the pages offered to the scraper run on its own, and to the imports
ScrapePages == DatePages \cup CoverPages \cup BrokenPages \cup PageCountPages
ImportPages ==
    SeriesPages
    \cup {pg \in CoverPages : pg.src = <<"/covers/7094.jpg">>}
    \cup BrokenPages

NoPage == [BasePage EXCEPT !.fetch_ok = FALSE, !.has_h1 = FALSE, !.title = "",
                           !.table = EmptyDict]

NoAlbum == [series_title |-> "", total_volumes |-> None,
            series_number |-> None, isbn |-> "", genre |-> <<>>,
            language |-> "", status |-> ""]

VARIABLES
    books,          \* db.books: _id -> document
    series,         \* db.book_series: _id -> document
    nextBookId,     \* next _id the store generates for a book
    nextSeriesId,   \* next _id the store generates for a series
    pc,             \* per request: the store operation it is about to run
    op,             \* per request: the handler it runs
    album,          \* per request: the scraped record (add_scraped_album)
    loc,            \* per request: the handler's local variables
    result,         \* per request: what the handler returned or raised
    pre,            \* per request: the store when the handler was entered
                    \* (a history variable, kept by the sequential runs)
    calls,          \* per request: the operations the handler has issued, in
                    \* order (a history variable)
    now,            \* datetime.utcnow() as the store keeps it (milliseconds)
    users,          \* db.users: _id -> document
    nextUserId      \* next _id the store generates for a user

vars == <<books, series, nextBookId, nextSeriesId, pc, op, album, loc, result, pre,
          calls, now, users, nextUserId>>

\* fastapi.status, as the routes use it
HTTP_200_OK == 200
HTTP_400_BAD_REQUEST == 400
HTTP_500_INTERNAL_SERVER_ERROR == 500

\* ------------------------------------------------------------- exceptions
\* an exception is its type and str(e), the message as a sequence of parts
NoError == [type |-> "", msg |-> <<>>]

\* requests.RequestException raised by requests.get / raise_for_status
RequestException == [type |-> "RequestException", msg |-> <<"fetch failed">>]

\* any exception raised while parsing the page (AttributeError, KeyError, ...)
PageError == [type |-> "Exception", msg |-> <<"page error">>]

\* pymongo.errors.DuplicateKeyError raised by insert_one under a unique index
DuplicateKeyError == [type |-> "DuplicateKeyError", msg |-> <<"E11000 duplicate key">>]

\* scrape_album: except requests.RequestException: raise
\*               except Exception as e: raise ValueError(f"Could not parse ...: {e}")
ScrapeRaise(e) ==
    IF e.type = "RequestException"
        THEN e
        ELSE [type |-> "ValueError",
              msg |-> <<"Could not parse album information: ">> \o e.msg]

\* a faulty variant: the handler lets the exception through unchanged
AddScrapedAlbumRaise_Unchanged(e) == e

\* add_scraped_album: except Exception as e: raise ValueError(f"Failed to add ...: {e}")
AddScrapedAlbumRaise(e) ==
    [type |-> "ValueError", msg |-> <<"Failed to add scraped album: ">> \o e.msg]

\* line 186: raise ValueError("Book not found")
BookNotFound == [type |-> "ValueError", msg |-> <<"Book not found">>]

\* line 192: raise ValueError("Failed to delete book")
DeleteFailed == [type |-> "ValueError", msg |-> <<"Failed to delete book">>]

\* line 155: raise ValueError("Book not found or no changes made")
NoChangesMade == [type |-> "ValueError", msg |-> <<"Book not found or no changes made">>]

\* update_book: except Exception as e: raise ValueError(f"Failed to update book: {e}")
UpdateBookRaise(e) ==
    [type |-> "ValueError", msg |-> <<"Failed to update book: ">> \o e.msg]

\* delete_book: except Exception as e: raise ValueError(f"Failed to delete book: {e}")
DeleteBookRaise(e) ==
    [type |-> "ValueError", msg |-> <<"Failed to delete book: ">> \o e.msg]

\* ------------------------------------------------------------------ store
Store == [books |-> books, series |-> series, users |-> users]
EmptyStore == [books |-> <<>>, series |-> <<>>, users |-> <<>>]

Remove(f, k) == [x \in DOMAIN f \ {k} |-> f[x]]

\* a faulty variant: the series collection has no unique index on title
SeriesTitleFree_NoIndex(coll, title) == TRUE

\* BookSeries.Config.indexes: {"key": {"title": 1}, "unique": True}
SeriesTitleFree(coll, title) == \A s \in DOMAIN coll : coll[s].title # title

\* a faulty variant: the books collection has no unique index on isbn
BookIsbnFree_NoIndex(coll, isbn) == TRUE

\* Book.Config.indexes: {"key": {"isbn": 1}, "unique": True, "sparse": True}
\* (the import always writes the isbn field, so every imported book is indexed)
BookIsbnFree(coll, isbn) == \A b \in DOMAIN coll : coll[b].isbn # isbn

\* db.book_series.find_one({"title": t}): the _id of a match, or None
FindSeriesByTitle(coll, title) ==
    IF \E s \in DOMAIN coll : coll[s].title = title
        THEN CHOOSE s \in DOMAIN coll : coll[s].title = title
        ELSE None

\* db.books.count_documents({"series_id": sid})
CountBooksOfSeries(coll, sid) ==
    Cardinality({b \in DOMAIN coll : coll[b].series_id = sid})

\* db.books.find_one({"series_id": sid}, sort=[("series_number", -1)]):
\* the greatest series_number (None sorts lowest), or absent
BooksOfSeries(coll, sid) == {b \in DOMAIN coll : coll[b].series_id = sid}

MaxSeriesNumber(coll, sid) ==
    CHOOSE n \in {coll[b].series_number : b \in BooksOfSeries(coll, sid)} :
        \A b \in BooksOfSeries(coll, sid) : coll[b].series_number <= n

\* ------------------------------------------------------ add_scraped_album
\* a faulty variant: the series is looked up whatever the title
HasSeriesTitle_Always(a) == TRUE

\* line 51: if album.series_title
HasSeriesTitle(a) == a.series_title # ""

\* a faulty variant: the new series starts with no current_book
NewSeriesDoc_NoCurrent(a) ==
    [title |-> a.series_title, total_books |-> a.total_volumes,
     current_book |-> None, genre |-> a.genre, language |-> a.language,
     status |-> "ongoing", updated_at |-> now]

\* the document of lines 54-66 (title, total_books, current_book, genre,
\* language, status, updated_at; notes and the other audit fields are left out)
NewSeriesDoc(a) ==
    [title |-> a.series_title, total_books |-> a.total_volumes,
     current_book |-> a.series_number, genre |-> a.genre,
     language |-> a.language, status |-> "ongoing", updated_at |-> now]

\* a faulty variant: every difference is written, an unset total included
TotalNeedsUpdate_AnyDifference(a, doc) == a.total_volumes # doc.total_books

\* a faulty variant: the total is compared but not tested for being set
TotalNeedsUpdate_Smaller(a, doc) == a.total_volumes < doc.total_books

\* line 71: album.total_volumes and album.total_volumes != series.get("total_books")
TotalNeedsUpdate(a, doc) ==
    /\ a.total_volumes # None
    /\ a.total_volumes # 0
    /\ a.total_volumes # doc.total_books

\* a faulty variant: the update also moves the current_book pointer
SeriesTotalUpdate_MovesCurrent(doc, a) ==
    [doc EXCEPT !.total_books = a.total_volumes, !.current_book = a.series_number,
                !.updated_at = now]

\* lines 72-81: $set total_books, updated_at
SeriesTotalUpdate(doc, a) ==
    [doc EXCEPT !.total_books = a.total_volumes, !.updated_at = now]

\* a faulty variant: a series just created is not taken for a series
NewBookDoc_NoSeries(a, locals) ==
    [isbn |-> a.isbn,
     series_id |-> IF locals.series = "doc" THEN locals.series_id ELSE None,
     series_number |-> a.series_number, status |-> a.status,
     created_by |-> locals.user_id, updated_by |-> locals.user_id,
     created_at |-> now, updated_at |-> now]

\* the document of lines 84-103 (isbn, series_id, series_number, status and the
\* audit fields); line 93: series_id if series else None
NewBookDoc(a, locals) ==
    [isbn |-> a.isbn,
     series_id |-> IF locals.series # "None" THEN locals.series_id ELSE None,
     series_number |-> a.series_number, status |-> a.status,
     created_by |-> locals.user_id, updated_by |-> locals.user_id,
     created_at |-> now, updated_at |-> now]

\* the handler's locals: user_id, update_data (update_book), the page its URL
\* answers with, download_cover and what happens to the cover download,
\* series ("None", a found "doc" or an "InsertOneResult"), series_id, the
\* inserted or targeted book's _id, the deleted book's series_number,
\* next_book's series_number, e, the exception caught, the User object
\* create_user was given and the _id its insert generated
NoLoc == [user_id |-> "", update_data |-> <<>>, page |-> NoPage,
          download_cover |-> FALSE, outcome |-> "", series |-> "None", series_id |-> None, book_id |-> None,
          series_number |-> None, next_number |-> None, e |-> NoError,
          user |-> NoUser, inserted_id |-> None]

NoResult == [status |-> "none", value |-> None, error |-> NoError]

Ok(v) == [status |-> "ok", value |-> v, error |-> NoError]
Raised(e) == [status |-> "error", value |-> None, error |-> e]

ImportPcs == {"imp_find_series", "imp_insert_series", "imp_update_series",
              "imp_insert_book", "imp_reread"}

InFlightImports == Cardinality({q \in Procs : pc[q] \in ImportPcs})

CanStart(p) == pc[p] \in {"idle", "done", "cancelled"}

\* the handler issues an operation: its first one, a further one
FirstCall(p, c) == calls' = [calls EXCEPT ![p] = <<c>>]
Call(p, c) == calls' = [calls EXCEPT ![p] = Append(@, c)]

Enter(p, name, snapshot) ==
    /\ op' = [op EXCEPT ![p] = name]
    /\ pre' = [pre EXCEPT ![p] = snapshot]

Finish(p, r) ==
    /\ pc' = [pc EXCEPT ![p] = "done"]
    /\ result' = [result EXCEPT ![p] = r]

\* except Exception as e: ... raise ValueError(...)
Catch(p, locals, e, raise) ==
    /\ loc' = [loc EXCEPT ![p] = [locals EXCEPT !.e = e]]
    /\ Finish(p, Raised(raise))

\* ----------------------------------------------------------- scrape_album
\* Strings the scraper takes apart are sequences: a date is the sequence of its
\* whitespace-separated tokens (date_str.split()), a day, a year and a
\* page count are sequences of characters, a URL or a path is the sequence of
\* its pieces.  An unset path (None) is the empty sequence.
NoPath == <<>>

\* _parse_date, lines 102-106
months_fr ==
    ("janv." :> <<"0", "1">>) @@ ("févr." :> <<"0", "2">>) @@ ("mars" :> <<"0", "3">>) @@
    ("avr." :> <<"0", "4">>) @@ ("mai" :> <<"0", "5">>) @@ ("juin" :> <<"0", "6">>) @@
    ("juil." :> <<"0", "7">>) @@ ("août" :> <<"0", "8">>) @@ ("sept." :> <<"0", "9">>) @@
    ("oct." :> <<"1", "0">>) @@ ("nov." :> <<"1", "1">>) @@ ("déc." :> <<"1", "2">>)

\* exceptions raised while the page is taken apart
IndexError == [type |-> "IndexError", msg |-> <<"list index out of range">>]
KeyError(k) == [type |-> "KeyError", msg |-> <<"'", k, "'">>]
AttributeError ==
    [type |-> "AttributeError", msg |-> <<"'NoneType' object has no attribute 'text'">>]
IntValueError ==
    [type |-> "ValueError", msg |-> <<"invalid literal for int() with base 10">>]

\* what a helper answers: a value, or the exception it raised
Value(v) == [ok |-> TRUE, value |-> v]
Raise(e) == [ok |-> FALSE, error |-> e]

\* a faulty variant: the day is copied as written
Zfill_NoPadding(s, width) == s

\* str.zfill(width) on a string of digits
Zfill(s, width) ==
    IF Len(s) >= width
        THEN s
        ELSE [i \in 1..width |->
                IF i <= width - Len(s) THEN "0" ELSE s[i - (width - Len(s))]]

\* _parse_date, lines 108-113: parts[0], months_fr[parts[1]], parts[2] are
\* evaluated in this order
ParseDate(parts) ==
    IF Len(parts) < 2 THEN Raise(IndexError)
    ELSE IF parts[2] \notin DOMAIN months_fr THEN Raise(KeyError(parts[2]))
    ELSE IF Len(parts) < 3 THEN Raise(IndexError)
    ELSE Value(parts[3] \o <<"-">> \o months_fr[parts[2]] \o <<"-">>
                \o Zfill(parts[1], 2))

\* int(s) on the text of a table cell: an optional sign, then decimal digits
DigitValue == ("0" :> 0) @@ ("1" :> 1) @@ ("2" :> 2) @@ ("3" :> 3) @@ ("4" :> 4) @@
              ("5" :> 5) @@ ("6" :> 6) @@ ("7" :> 7) @@ ("8" :> 8) @@ ("9" :> 9)

RECURSIVE DigitsToInt(_)
DigitsToInt(s) ==
    IF s = <<>> THEN 0
    ELSE 10 * DigitsToInt(SubSeq(s, 1, Len(s) - 1)) + DigitValue[s[Len(s)]]

\* a faulty variant: a cell that is no integer counts as 0
ParseInt_ZeroWhenUnparsable(s) ==
    IF s # <<>> /\ \A i \in 1..Len(s) : s[i] \in DOMAIN DigitValue
        THEN Value(DigitsToInt(s))
        ELSE Value(0)

ParseInt(s) ==
    LET signed == s # <<>> /\ s[1] \in {"-", "+"}
        digits == IF signed THEN Tail(s) ELSE s
    IN  IF digits # <<>> /\ \A i \in 1..Len(digits) : digits[i] \in DOMAIN DigitValue
            THEN Value(IF signed /\ s[1] = "-"
                         THEN 0 - DigitsToInt(digits) ELSE DigitsToInt(digits))
            ELSE Raise(IntValueError)

\* dict.get(key, default)
Get(dict, key, default) == IF key \in DOMAIN dict THEN dict[key] ELSE default

\* line 59: self.base_url
base_url == "https://www.bubblebd.com"

\* str.startswith('http') on the src attributes offered
StartsWithHttp(src) ==
    src # <<>> /\ src[1] \in {"https://www.bubblebd.com", "https://cdn.bubblebd.com"}

\* hashlib.md5(url.encode()).hexdigest() of the cover URLs offered
Md5Hex ==
    (<<"https://www.bubblebd.com", "/covers/7094.jpg">> :>
        <<"b", "a", "7", "f", "a", "1", "1", "c", "f", "c", "5", "4", "6", "d", "b", "b",
          "1", "e", "c", "4", "a", "0", "7", "c", "5", "2", "0", "3", "0", "4", "3", "c">>) @@
    (<<"https://www.bubblebd.com", "/covers/11107.jpg">> :>
        <<"b", "a", "7", "f", "a", "1", "1", "c", "1", "3", "3", "d", "6", "c", "a", "9",
          "1", "b", "d", "6", "1", "9", "4", "5", "4", "7", "9", "e", "2", "0", "9", "7">>) @@
    (<<"https://cdn.bubblebd.com", "/c/1.jpg">> :>
        <<"2", "4", "a", "4", "0", "3", "5", "e", "3", "0", "9", "c", "d", "e", "4", "7",
          "8", "9", "c", "b", "6", "d", "d", "7", "9", "2", "7", "4", "7", "9", "f", "4">>) @@
    (<<"https://www.bubblebd.com">> :>
        <<"1", "9", "1", "8", "0", "e", "d", "3", "4", "1", "7", "6", "b", "a", "3", "a",
          "a", "8", "8", "5", "e", "4", "1", "d", "6", "8", "9", "6", "0", "e", "2", "8">>)

\* line 84: hexdigest()[:8]
UrlHash(url) == SubSeq(Md5Hex[url], 1, 8)

\* line 85: f"{isbn}_{url_hash}.jpg"
Filename(url, isbn) == <<isbn, "_">> \o UrlHash(url) \o <<".jpg">>

\* line 86: f"static/covers/books/{filename}"
RelativePath(filename) == <<"static/covers/books/">> \o filename

\* what can happen to a cover download: it works, requests.get raises,
\* raise_for_status raises, Image.open raises, img.save raises
CoverOutcomes == {"saved", "ConnectionError", "HTTPError", "UnidentifiedImageError",
                  "OSError"}

\* a faulty variant: the path is answered although nothing was saved
DownloadCover_PathAnyway(url, isbn, outcome) == RelativePath(Filename(url, isbn))

\* _download_cover, lines 79-98: the relative path, or None on any exception
DownloadCover(url, isbn, outcome) ==
    IF outcome = "saved" THEN RelativePath(Filename(url, isbn)) ELSE NoPath

\* line 209-211: the src attribute, made absolute
CoverUrl(src) == IF StartsWithHttp(src) THEN src ELSE <<base_url>> \o src

\* _extract_series_info, lines 117-129: no h1.series-title gives ("", None)
ExtractSeriesInfo(page) ==
    IF page.series_title = ""
        THEN [series_title |-> "", total_volumes |-> None]
        ELSE [series_title |-> page.series_title, total_volumes |-> page.tome.total]

\* _extract_series_number, lines 133-138
ExtractSeriesNumber(page) == page.tome.number

\* a faulty variant: the archiver is invoked for every cover image found
ArchiverInvoked_Always(page, download_cover, isbn) == page.has_cover

\* lines 208 and 213: if cover_img and 'src' in cover_img.attrs, if download_cover and isbn
ArchiverInvoked(page, download_cover, isbn) ==
    page.has_cover /\ download_cover /\ isbn # ""

\* scrape_album failed: `caught` is the exception raised in the try block,
\* `error` what the except clauses of lines 237-242 raise for it
ScrapeFailed(e) ==
    [ok |-> FALSE, album |-> NoAlbum, caught |-> e, error |-> ScrapeRaise(e),
     calls |-> <<"requests.get">>]

\* scrape_album, lines 157-242, on the page the URL answers with:
\* the record returned or the exception raised, and the operations issued
ScrapeAlbum(page, download_cover, outcome) ==
    LET char_data == page.table
        isbn == Get(char_data, "ISBN/EAN", "")
        publisher == Get(char_data, "Editeur", "Delcourt")
        publication_date == ParseDate(Get(char_data, "Date de parution", <<>>))
        pages == ParseInt(Get(char_data, "Nombre de pages", <<"0">>))
        info == ExtractSeriesInfo(page)
        cover_url == IF page.has_cover THEN CoverUrl(page.src) ELSE <<>>
        invoked == ArchiverInvoked(page, download_cover, isbn)
    IN  IF ~page.fetch_ok THEN ScrapeFailed(RequestException)
        ELSE IF ~page.has_h1 THEN ScrapeFailed(AttributeError)
        ELSE IF ~publication_date.ok THEN ScrapeFailed(publication_date.error)
        ELSE IF ~pages.ok THEN ScrapeFailed(pages.error)
        ELSE [ok |-> TRUE,
              album |-> [title |-> page.title, isbn |-> isbn, publisher |-> publisher,
                         publication_date |-> publication_date.value,
                         pages |-> pages.value, genre |-> page.themes,
                         language |-> "fr",
                         series_number |-> ExtractSeriesNumber(page),
                         status |-> "wanted", cover_url |-> cover_url,
                         cover_path |-> IF invoked
                                          THEN DownloadCover(cover_url, isbn, outcome)
                                          ELSE NoPath,
                         series_title |-> info.series_title,
                         total_volumes |-> info.total_volumes],
              caught |-> NoError, error |-> NoError,
              calls |-> <<"requests.get">>
                            \o IF invoked THEN <<"_download_cover">> ELSE <<>>]

\* the inputs of one scrape: the page, the flag, and what happens to the cover
\* download when the archiver is invoked
ScrapeLocals(page, download_cover, outcome) ==
    [NoLoc EXCEPT !.page = page, !.download_cover = download_cover,
                  !.outcome = outcome]

\* the runs of scrape_album on the given pages: download_cover is varied on
\* the pages that show a cover, the outcome when the archiver is invoked
Runs(pages) ==
    {i \in [page : pages, download_cover : BOOLEAN, outcome : CoverOutcomes] :
        /\ i.download_cover \/ i.page.has_cover
        /\ i.outcome = "saved"
            \/ Len(ScrapeAlbum(i.page, i.download_cover, i.outcome).calls) > 1}

ScrapeRuns == Runs(ScrapePages)
ImportRuns == Runs(ImportPages)

\* scrape_album called on its own (as main() does), once by each caller
Scrape(p, runs) ==
    /\ pc[p] = "idle"
    /\ \E i \in runs :
        LET r == ScrapeAlbum(i.page, i.download_cover, i.outcome)
            locals == ScrapeLocals(i.page, i.download_cover, i.outcome)
        IN  /\ album' = [album EXCEPT ![p] = r.album]
            /\ calls' = [calls EXCEPT ![p] = r.calls]
            /\ loc' = [loc EXCEPT ![p] = [locals EXCEPT !.e = r.caught]]
            /\ Finish(p, IF r.ok THEN Ok(None) ELSE Raised(r.error))
    /\ op' = [op EXCEPT ![p] = "scrape"]
    /\ UNCHANGED <<books, series, nextBookId, nextSeriesId, pre, now,
                   users, nextUserId>>

\* a faulty variant: the series collection is read before the page is scraped
ImportPage_LooksUpFirst(p, runs, callers, snapshot) ==
    /\ CanStart(p)
    /\ nextBookId + InFlightImports <= MaxBookId
    /\ nextSeriesId + InFlightImports <= MaxSeriesId
    /\ Enter(p, "import", snapshot)
    /\ \E i \in runs : \E u \in callers :
        LET r == ScrapeAlbum(i.page, i.download_cover, i.outcome)
            locals == [ScrapeLocals(i.page, i.download_cover, i.outcome)
                            EXCEPT !.user_id = u]
        IN  /\ album' = [album EXCEPT ![p] = r.album]
            /\ calls' = [calls EXCEPT ![p] = <<"book_series.find_one">> \o r.calls]
            /\ IF r.ok
                 THEN /\ loc' = [loc EXCEPT ![p] = locals]
                      /\ pc' = [pc EXCEPT ![p] =
                                 IF HasSeriesTitle(r.album)
                                     THEN "imp_find_series" ELSE "imp_insert_book"]
                      /\ result' = [result EXCEPT ![p] = NoResult]
                 ELSE Catch(p, locals, r.error, AddScrapedAlbumRaise(r.error))
    /\ UNCHANGED <<books, series, nextBookId, nextSeriesId, now, users, nextUserId>>

\* lines 46-51 on a page: scrape_album returns a record or raises, the handler
\* goes on to the series lookup or to the book, or its except clause raises
ImportPage(p, runs, callers, snapshot) ==
    /\ CanStart(p)
    /\ nextBookId + InFlightImports <= MaxBookId
    /\ nextSeriesId + InFlightImports <= MaxSeriesId
    /\ Enter(p, "import", snapshot)
    /\ \E i \in runs : \E u \in callers :
        LET r == ScrapeAlbum(i.page, i.download_cover, i.outcome)
            locals == [ScrapeLocals(i.page, i.download_cover, i.outcome)
                            EXCEPT !.user_id = u]
        IN  /\ album' = [album EXCEPT ![p] = r.album]
            /\ calls' = [calls EXCEPT ![p] = r.calls]
            /\ IF r.ok
                 THEN /\ loc' = [loc EXCEPT ![p] = locals]
                      /\ pc' = [pc EXCEPT ![p] =
                                 IF HasSeriesTitle(r.album)
                                     THEN "imp_find_series" ELSE "imp_insert_book"]
                      /\ result' = [result EXCEPT ![p] = NoResult]
                 ELSE Catch(p, locals, r.error, AddScrapedAlbumRaise(r.error))
    /\ UNCHANGED <<books, series, nextBookId, nextSeriesId, now, users, nextUserId>>

\* lines 46-47, the page cannot be fetched: scrape_album re-raises the
\* RequestException, the handler's except clause turns it into a ValueError
ImportFetchFails(p, snapshot) ==
    /\ CanStart(p)
    /\ Enter(p, "import", snapshot)
    /\ album' = [album EXCEPT ![p] = NoAlbum]
    /\ Catch(p, NoLoc, ScrapeRaise(RequestException), AddScrapedAlbumRaise(ScrapeRaise(RequestException)))
    /\ FirstCall(p, "requests.get")
    /\ UNCHANGED <<books, series, nextBookId, nextSeriesId, now, users, nextUserId>>

\* lines 46-47, the page cannot be parsed
ImportParseFails(p, snapshot) ==
    /\ CanStart(p)
    /\ Enter(p, "import", snapshot)
    /\ album' = [album EXCEPT ![p] = NoAlbum]
    /\ Catch(p, NoLoc, ScrapeRaise(PageError), AddScrapedAlbumRaise(ScrapeRaise(PageError)))
    /\ FirstCall(p, "requests.get")
    /\ UNCHANGED <<books, series, nextBookId, nextSeriesId, now, users, nextUserId>>

\* lines 46-51: scrape_album returns a record; series = None
ImportScrape(p, albums, callers, snapshot) ==
    /\ CanStart(p)
    /\ nextBookId + InFlightImports <= MaxBookId
    /\ \E a \in albums :
        /\ a.series_title # "" => nextSeriesId + InFlightImports <= MaxSeriesId
        /\ album' = [album EXCEPT ![p] = a]
        /\ pc' = [pc EXCEPT ![p] =
                    IF HasSeriesTitle(a) THEN "imp_find_series" ELSE "imp_insert_book"]
    /\ Enter(p, "import", snapshot)
    /\ \E u \in callers : loc' = [loc EXCEPT ![p] = [NoLoc EXCEPT !.user_id = u]]
    /\ result' = [result EXCEPT ![p] = NoResult]
    /\ FirstCall(p, "requests.get")
    /\ UNCHANGED <<books, series, nextBookId, nextSeriesId, now, users, nextUserId>>

\* lines 52-53, 68-71: find_one by title, then the branch on the answer
ImportFindSeries(p) ==
    /\ pc[p] = "imp_find_series"
    /\ LET sid == FindSeriesByTitle(series, album[p].series_title) IN
        IF sid = None
            THEN /\ pc' = [pc EXCEPT ![p] = "imp_insert_series"]
                 /\ loc' = loc
            ELSE /\ loc' = [loc EXCEPT ![p].series = "doc", ![p].series_id = sid]
                 /\ pc' = [pc EXCEPT ![p] =
                            IF TotalNeedsUpdate(album[p], series[sid])
                                THEN "imp_update_series" ELSE "imp_insert_book"]
    /\ Call(p, "book_series.find_one")
    /\ UNCHANGED <<books, series, nextBookId, nextSeriesId, op, album, result, pre, now,
                   users, nextUserId>>

\* lines 54-67: insert_one of the new series
ImportInsertSeries(p) ==
    /\ pc[p] = "imp_insert_series"
    /\ IF SeriesTitleFree(series, album[p].series_title)
        THEN /\ series' = series @@ (nextSeriesId :> NewSeriesDoc(album[p]))
             /\ nextSeriesId' = nextSeriesId + 1
             /\ loc' = [loc EXCEPT ![p].series = "InsertOneResult",
                                    ![p].series_id = nextSeriesId]
             /\ pc' = [pc EXCEPT ![p] = "imp_insert_book"]
             /\ result' = result
        ELSE /\ Catch(p, loc[p], DuplicateKeyError, AddScrapedAlbumRaise(DuplicateKeyError))
             /\ UNCHANGED <<series, nextSeriesId>>
    /\ Call(p, "book_series.insert_one")
    /\ UNCHANGED <<books, nextBookId, op, album, pre, now, users, nextUserId>>

\* lines 72-81: update_one by _id (no document matched: nothing is written)
ImportUpdateSeries(p) ==
    /\ pc[p] = "imp_update_series"
    /\ LET sid == loc[p].series_id IN
        series' = IF sid \in DOMAIN series
                    THEN [series EXCEPT ![sid] = SeriesTotalUpdate(series[sid], album[p])]
                    ELSE series
    /\ pc' = [pc EXCEPT ![p] = "imp_insert_book"]
    /\ Call(p, "book_series.update_one")
    /\ UNCHANGED <<books, nextBookId, nextSeriesId, op, album, loc, result, pre, now,
                   users, nextUserId>>

\* a faulty variant: a failed book insert takes the series just created back
ImportInsertBook_RollsBack(p) ==
    /\ pc[p] = "imp_insert_book"
    /\ IF BookIsbnFree(books, album[p].isbn)
        THEN /\ books' = books @@ (nextBookId :> NewBookDoc(album[p], loc[p]))
             /\ nextBookId' = nextBookId + 1
             /\ loc' = [loc EXCEPT ![p].book_id = nextBookId]
             /\ pc' = [pc EXCEPT ![p] = "imp_reread"]
             /\ result' = result
             /\ series' = series
        ELSE /\ Catch(p, loc[p], DuplicateKeyError, AddScrapedAlbumRaise(DuplicateKeyError))
             /\ UNCHANGED <<books, nextBookId>>
             /\ series' = IF loc[p].series = "InsertOneResult"
                            THEN Remove(series, loc[p].series_id) ELSE series
    /\ Call(p, "books.insert_one")
    /\ UNCHANGED <<nextSeriesId, op, album, pre, now, users, nextUserId>>

\* lines 84-108: insert_one of the book
ImportInsertBook(p) ==
    /\ pc[p] = "imp_insert_book"
    /\ IF BookIsbnFree(books, album[p].isbn)
        THEN /\ books' = books @@ (nextBookId :> NewBookDoc(album[p], loc[p]))
             /\ nextBookId' = nextBookId + 1
             /\ loc' = [loc EXCEPT ![p].book_id = nextBookId]
             /\ pc' = [pc EXCEPT ![p] = "imp_reread"]
             /\ result' = result
        ELSE /\ Catch(p, loc[p], DuplicateKeyError, AddScrapedAlbumRaise(DuplicateKeyError))
             /\ UNCHANGED <<books, nextBookId>>
    /\ Call(p, "books.insert_one")
    /\ UNCHANGED <<series, nextSeriesId, op, album, pre, now, users, nextUserId>>

\* line 111: find_one by the inserted _id; the answer is returned
ImportReturn(p) ==
    /\ pc[p] = "imp_reread"
    /\ Finish(p, Ok(IF loc[p].book_id \in DOMAIN books THEN loc[p].book_id ELSE None))
    /\ Call(p, "books.find_one")
    /\ UNCHANGED <<books, series, nextBookId, nextSeriesId, op, album, loc, pre, now,
                   users, nextUserId>>

\* the request is aborted while the handler waits for a store operation: the
\* handler does not resume, and what it wrote stays written
ImportAbort(p) ==
    /\ pc[p] \in ImportPcs
    /\ pc' = [pc EXCEPT ![p] = "cancelled"]
    /\ UNCHANGED <<books, series, nextBookId, nextSeriesId, op, album, loc, result,
                   pre, calls, now, users, nextUserId>>

\* ------------------------------------------------------------ delete_book
\* a faulty variant: the series stays whatever the count
SeriesIsEmpty_Never(remaining_books) == FALSE

\* a faulty variant: the series goes only when the deleted book was not its last
SeriesIsEmpty_Inverted(remaining_books) == remaining_books # 0

\* line 201: remaining_books == 0
SeriesIsEmpty(remaining_books) == remaining_books = 0

\* a faulty variant: the pointer is recomputed when it names another book
PointsAtDeleted_Differs(doc, book) == doc.current_book # book.series_number

\* a faulty variant: the pointer is recomputed on every delete
PointsAtDeleted_Always(doc, book) == TRUE

\* line 207: series.get("current_book") == book.get("series_number")
PointsAtDeleted(doc, book) == doc.current_book = book.series_number

\* a faulty variant: the pointer is left on the deleted book's number
SeriesCurrentUpdate_Stale(doc, n, book) ==
    [doc EXCEPT !.current_book = book.series_number, !.updated_at = now]

\* lines 214-223: $set current_book, updated_at
SeriesCurrentUpdate(doc, n, book) ==
    [doc EXCEPT !.current_book = n, !.updated_at = now]

\* a faulty variant: deleting an absent book is answered as a success
DeleteFindBook_AbsentIsSuccess(p, snapshot) ==
    /\ CanStart(p)
    /\ Enter(p, "delete", snapshot)
    /\ album' = [album EXCEPT ![p] = NoAlbum]
    /\ \E book_id \in BookIds :
        IF book_id \in DOMAIN books
            THEN /\ loc' = [loc EXCEPT ![p] =
                        [NoLoc EXCEPT !.book_id = book_id,
                                      !.series_id = books[book_id].series_id,
                                      !.series_number = books[book_id].series_number]]
                 /\ pc' = [pc EXCEPT ![p] = "del_delete"]
                 /\ result' = [result EXCEPT ![p] = NoResult]
            ELSE /\ loc' = [loc EXCEPT ![p] = [NoLoc EXCEPT !.book_id = book_id]]
                 /\ Finish(p, Ok(book_id))
    /\ FirstCall(p, "books.find_one")
    /\ UNCHANGED <<books, series, nextBookId, nextSeriesId, now, users, nextUserId>>

\* lines 184-186: find_one by _id; an absent book raises ValueError("Book not found")
DeleteFindBook(p, snapshot) ==
    /\ CanStart(p)
    /\ Enter(p, "delete", snapshot)
    /\ album' = [album EXCEPT ![p] = NoAlbum]
    /\ \E book_id \in BookIds :
        IF book_id \in DOMAIN books
            THEN /\ loc' = [loc EXCEPT ![p] =
                        [NoLoc EXCEPT !.book_id = book_id,
                                      !.series_id = books[book_id].series_id,
                                      !.series_number = books[book_id].series_number]]
                 /\ pc' = [pc EXCEPT ![p] = "del_delete"]
                 /\ result' = [result EXCEPT ![p] = NoResult]
            ELSE Catch(p, [NoLoc EXCEPT !.book_id = book_id], BookNotFound,
                       DeleteBookRaise(BookNotFound))
    /\ FirstCall(p, "books.find_one")
    /\ UNCHANGED <<books, series, nextBookId, nextSeriesId, now, users, nextUserId>>

\* lines 189-195: delete_one by _id; nothing deleted raises ValueError
DeleteBook(p) ==
    /\ pc[p] = "del_delete"
    /\ IF loc[p].book_id \in DOMAIN books
        THEN /\ books' = Remove(books, loc[p].book_id)
             /\ loc' = loc
             /\ IF loc[p].series_id # None
                  THEN /\ pc' = [pc EXCEPT ![p] = "del_count"]
                       /\ result' = result
                  ELSE Finish(p, Ok(loc[p].book_id))
        ELSE /\ books' = books
             /\ Catch(p, loc[p], DeleteFailed, DeleteBookRaise(DeleteFailed))
    /\ Call(p, "books.delete_one")
    /\ UNCHANGED <<series, nextBookId, nextSeriesId, op, album, pre, now,
                   users, nextUserId>>

\* lines 197-201: count_documents of the books left in the series
DeleteCountRemaining(p) ==
    /\ pc[p] = "del_count"
    /\ pc' = [pc EXCEPT ![p] =
                IF SeriesIsEmpty(CountBooksOfSeries(books, loc[p].series_id))
                    THEN "del_series" ELSE "del_find_series"]
    /\ Call(p, "books.count_documents")
    /\ UNCHANGED <<books, series, nextBookId, nextSeriesId, op, album, loc, result, pre, now,
                   users, nextUserId>>

\* line 203: delete_one of the series
DeleteSeries(p) ==
    /\ pc[p] = "del_series"
    /\ series' = Remove(series, loc[p].series_id)
    /\ Finish(p, Ok(loc[p].book_id))
    /\ Call(p, "book_series.delete_one")
    /\ UNCHANGED <<books, nextBookId, nextSeriesId, op, album, loc, pre, now,
                   users, nextUserId>>

\* lines 206-207: find_one of the series, then the test of its pointer
DeleteFindSeries(p) ==
    /\ pc[p] = "del_find_series"
    /\ LET sid == loc[p].series_id IN
        IF sid \in DOMAIN series /\ PointsAtDeleted(series[sid], loc[p])
            THEN /\ pc' = [pc EXCEPT ![p] = "del_find_next"]
                 /\ result' = result
            ELSE Finish(p, Ok(loc[p].book_id))
    /\ Call(p, "book_series.find_one")
    /\ UNCHANGED <<books, series, nextBookId, nextSeriesId, op, album, loc, pre, now,
                   users, nextUserId>>

\* lines 209-213: find_one of the book with the greatest series_number
DeleteFindNext(p) ==
    /\ pc[p] = "del_find_next"
    /\ IF BooksOfSeries(books, loc[p].series_id) # {}
        THEN /\ loc' = [loc EXCEPT ![p].next_number =
                            MaxSeriesNumber(books, loc[p].series_id)]
             /\ pc' = [pc EXCEPT ![p] = "del_update_series"]
             /\ result' = result
        ELSE /\ loc' = loc
             /\ Finish(p, Ok(loc[p].book_id))
    /\ Call(p, "books.find_one")
    /\ UNCHANGED <<books, series, nextBookId, nextSeriesId, op, album, pre, now,
                   users, nextUserId>>

\* lines 214-225: update_one of the series (no document matched: nothing written)
DeleteUpdateSeries(p) ==
    /\ pc[p] = "del_update_series"
    /\ LET sid == loc[p].series_id IN
        series' = IF sid \in DOMAIN series
                    THEN [series EXCEPT ![sid] =
                            SeriesCurrentUpdate(series[sid], loc[p].next_number, loc[p])]
                    ELSE series
    /\ Finish(p, Ok(loc[p].book_id))
    /\ Call(p, "book_series.update_one")
    /\ UNCHANGED <<books, nextBookId, nextSeriesId, op, album, loc, pre, now,
                   users, nextUserId>>

\* ------------------------------------------------------------ update_book
\* lines 139-140: update_data["updated_by"], update_data["updated_at"]
AuditStamp(update_data, user_id) ==
    [k \in DOMAIN update_data \cup {"updated_by", "updated_at"} |->
        IF k = "updated_by" THEN user_id
        ELSE IF k = "updated_at" THEN now
        ELSE update_data[k]]

\* a faulty variant: the document is replaced by update_data
SetFields_Replace(doc, update_data) == update_data

\* update_one's {"$set": update_data} on one document
SetFields(doc, update_data) ==
    [k \in DOMAIN doc \cup DOMAIN update_data |->
        IF k \in DOMAIN update_data THEN update_data[k] ELSE doc[k]]

\* a faulty variant: the documents matched are counted, changed or not
ModifiedCount_Matched(coll, book_id, update_data) ==
    IF book_id \in DOMAIN coll THEN 1 ELSE 0

\* result.modified_count of update_one by _id: the documents the $set changed
ModifiedCount(coll, book_id, update_data) ==
    IF book_id \in DOMAIN coll /\ SetFields(coll[book_id], update_data) # coll[book_id]
        THEN 1 ELSE 0

\* lines 137-155: the audit stamps, update_one by _id, the test of modified_count
UpdateBook(p, callers, snapshot) ==
    /\ CanStart(p)
    /\ Enter(p, "update", snapshot)
    /\ album' = [album EXCEPT ![p] = NoAlbum]
    /\ FirstCall(p, "books.update_one")
    /\ \E book_id \in BookIds : \E data \in UpdateDatas : \E u \in callers :
        LET update_data == AuditStamp(data, u)
            locals == [NoLoc EXCEPT !.user_id = u, !.book_id = book_id,
                                    !.update_data = update_data]
        IN  /\ books' = IF book_id \in DOMAIN books
                            THEN [books EXCEPT ![book_id] = SetFields(@, update_data)]
                            ELSE books
            /\ IF ModifiedCount(books, book_id, update_data) = 0
                 THEN Catch(p, locals, NoChangesMade, UpdateBookRaise(NoChangesMade))
                 ELSE /\ loc' = [loc EXCEPT ![p] = locals]
                      /\ pc' = [pc EXCEPT ![p] = "upd_reread"]
                      /\ result' = [result EXCEPT ![p] = NoResult]
    /\ UNCHANGED <<series, nextBookId, nextSeriesId, now, users, nextUserId>>

\* line 158: find_one by _id; the answer is returned
UpdateReturn(p) ==
    /\ pc[p] = "upd_reread"
    /\ Finish(p, Ok(IF loc[p].book_id \in DOMAIN books THEN loc[p].book_id ELSE None))
    /\ Call(p, "books.find_one")
    /\ UNCHANGED <<books, series, nextBookId, nextSeriesId, op, album, loc, pre, now,
                   users, nextUserId>>

\* time passes: the next datetime.utcnow() reads a later millisecond
Tick ==
    /\ now < MaxClock
    /\ now' = now + 1
    /\ UNCHANGED <<books, series, nextBookId, nextSeriesId, pc, op, album, loc,
                   result, pre, calls, users, nextUserId>>

\* ------------------------------------------- UserService.create_user
\* core/errors.py: CollectionManagerError(status_code, detail), an HTTPException
CollectionManagerError(status_code, detail) ==
    [type |-> "CollectionManagerError", msg |-> <<detail>>, status_code |-> status_code]

\* lines 68-75: a CollectionManagerError is re-raised as it is, any other
\* exception as CollectionManagerError(500, f"Error creating user: {e}")
CreateUserRaise(e) ==
    IF e.type = "CollectionManagerError"
        THEN e
        ELSE [type |-> "CollectionManagerError",
              msg |-> <<"Error creating user: ">> \o e.msg, status_code |-> 500]

\* a faulty variant: only the username is looked up
ExistingUser_UsernameOnly(coll, user) ==
    \E u \in DOMAIN coll : coll[u].username = user.username

\* lines 35-40: find_one({"$or": [{"username": ...}, {"email": ...}]}) answers
\* a document
ExistingUser(coll, user) ==
    \E u \in DOMAIN coll :
        coll[u].username = user.username \/ coll[u].email = user.email

\* User.Config.indexes: unique on username, unique on email
UserKeysFree(coll, user) ==
    \A u \in DOMAIN coll :
        coll[u].username # user.username /\ coll[u].email # user.email

\* lines 35-46: the lookup; a match raises CollectionManagerError(400, ...)
CreateUserFind(p) ==
    /\ CanStart(p)
    /\ nextUserId <= MaxUserId
    /\ Enter(p, "create_user", Store)
    /\ album' = [album EXCEPT ![p] = NoAlbum]
    /\ FirstCall(p, "users.find_one")
    /\ \E user \in NewUsers :
        LET locals == [NoLoc EXCEPT !.user = user] IN
        IF ExistingUser(users, user)
            THEN Catch(p, locals,
                       CollectionManagerError(400, "Username or email already exists"),
                       CreateUserRaise(CollectionManagerError(
                            400, "Username or email already exists")))
            ELSE /\ loc' = [loc EXCEPT ![p] = locals]
                 /\ pc' = [pc EXCEPT ![p] = "usr_insert"]
                 /\ result' = [result EXCEPT ![p] = NoResult]
    /\ UNCHANGED <<books, series, nextBookId, nextSeriesId, now, users, nextUserId>>

\* lines 49-50: insert_one(user.model_dump())
CreateUserInsert(p) ==
    /\ pc[p] = "usr_insert"
    /\ IF UserKeysFree(users, loc[p].user)
        THEN /\ users' = users @@ (nextUserId :> loc[p].user)
             /\ nextUserId' = nextUserId + 1
             /\ loc' = [loc EXCEPT ![p].inserted_id = nextUserId]
             /\ pc' = [pc EXCEPT ![p] = "usr_reread"]
             /\ result' = result
        ELSE /\ Catch(p, loc[p], DuplicateKeyError, CreateUserRaise(DuplicateKeyError))
             /\ UNCHANGED <<users, nextUserId>>
    /\ Call(p, "users.insert_one")
    /\ UNCHANGED <<books, series, nextBookId, nextSeriesId, op, album, pre, now>>

\* lines 58-67: find_one by the inserted _id; the user read is returned, an
\* absent one raises CollectionManagerError(500, ...)
CreateUserReturn(p) ==
    /\ pc[p] = "usr_reread"
    /\ IF loc[p].inserted_id \in DOMAIN users
        THEN /\ Finish(p, Ok(loc[p].inserted_id))
             /\ loc' = loc
        ELSE Catch(p, loc[p],
                   CollectionManagerError(500, "Failed to retrieve created user"),
                   CreateUserRaise(CollectionManagerError(
                        500, "Failed to retrieve created user")))
    /\ Call(p, "users.find_one")
    /\ UNCHANGED <<books, series, nextBookId, nextSeriesId, op, album, pre, now,
                   users, nextUserId>>

\* ----------------------------------------------------------- routes/books
\* a faulty variant: every failure is answered as a server error
RouteStatus_AllServerError(r) ==
    IF r.status = "ok" THEN HTTP_200_OK ELSE HTTP_500_INTERNAL_SERVER_ERROR

\* scrape_and_add_book, update_existing_book, remove_book: the handler's value
\* is returned (200); except ValueError answers 400, except Exception 500
RouteStatus(r) ==
    IF r.status = "ok"
        THEN HTTP_200_OK
        ELSE IF r.error.type = "ValueError"
                THEN HTTP_400_BAD_REQUEST
                ELSE HTTP_500_INTERNAL_SERVER_ERROR

\* ------------------------------------------------------------------- spec
Init ==
    /\ books = <<>>
    /\ series = <<>>
    /\ nextBookId = 1
    /\ nextSeriesId = 1
    /\ pc = [p \in Procs |-> "idle"]
    /\ op = [p \in Procs |-> "none"]
    /\ album = [p \in Procs |-> NoAlbum]
    /\ loc = [p \in Procs |-> NoLoc]
    /\ result = [p \in Procs |-> NoResult]
    /\ pre = [p \in Procs |-> EmptyStore]
    /\ calls = [p \in Procs |-> <<>>]
    /\ now = 0
    /\ users = <<>>
    /\ nextUserId = 1

SeqNext ==
    \E p \in SeqProcs :
        \/ ImportFetchFails(p, Store)
        \/ ImportParseFails(p, Store)
        \/ ImportScrape(p, Albums, SeqUsers, Store)
        \/ ImportFindSeries(p)
        \/ ImportInsertSeries(p)
        \/ ImportUpdateSeries(p)
        \/ ImportInsertBook(p)
        \/ ImportReturn(p)
        \/ DeleteFindBook(p, Store)
        \/ DeleteBook(p)
        \/ DeleteCountRemaining(p)
        \/ DeleteSeries(p)
        \/ DeleteFindSeries(p)
        \/ DeleteFindNext(p)
        \/ DeleteUpdateSeries(p)

SeqSpec == Init /\ [][SeqNext]_vars

Next ==
    \E p \in Procs :
        \/ ImportFetchFails(p, EmptyStore)
        \/ ImportParseFails(p, EmptyStore)
        \/ ImportScrape(p, ConcAlbums, SeqUsers, EmptyStore)
        \/ ImportFindSeries(p)
        \/ ImportInsertSeries(p)
        \/ ImportUpdateSeries(p)
        \/ ImportInsertBook(p)
        \/ ImportReturn(p)
        \/ DeleteFindBook(p, EmptyStore)
        \/ DeleteBook(p)
        \/ DeleteCountRemaining(p)
        \/ DeleteSeries(p)
        \/ DeleteFindSeries(p)
        \/ DeleteFindNext(p)
        \/ DeleteUpdateSeries(p)

Spec == Init /\ [][Next]_vars

\* one request at a time; a request may be aborted at any await point
AbortNext ==
    \E p \in SeqProcs :
        \/ ImportScrape(p, AbortAlbums, SeqUsers, Store)
        \/ ImportFindSeries(p)
        \/ ImportInsertSeries(p)
        \/ ImportUpdateSeries(p)
        \/ ImportInsertBook(p)
        \/ ImportReturn(p)
        \/ ImportAbort(p)

AbortSpec == Init /\ [][AbortNext]_vars

\* the scraper on its own, called twice over
ScrapeNext == \E p \in Procs : Scrape(p, ScrapeRuns)

ScrapeSpec == Init /\ [][ScrapeNext]_vars

\* one import at a time, each from the page its URL answers with
PageNext ==
    \E p \in SeqProcs :
        \/ ImportPage(p, ImportRuns, SeqUsers, Store)
        \/ ImportFindSeries(p)
        \/ ImportInsertSeries(p)
        \/ ImportUpdateSeries(p)
        \/ ImportInsertBook(p)
        \/ ImportReturn(p)

PageSpec == Init /\ [][PageNext]_vars

\* the imports run one at a time and fill the store; then each caller calls
\* delete_book at most once, and the two calls interleave at their await points
DeleteRaceNext ==
    \E p \in Procs :
        \/ /\ \A q \in Procs : CanStart(q) /\ op[q] # "delete"
           /\ ImportScrape(p, ConcAlbums, SeqUsers, EmptyStore)
        \/ ImportFindSeries(p)
        \/ ImportInsertSeries(p)
        \/ ImportUpdateSeries(p)
        \/ ImportInsertBook(p)
        \/ ImportReturn(p)
        \/ /\ op[p] # "delete"
           /\ \A q \in Procs : pc[q] \notin ImportPcs
           /\ DeleteFindBook(p, Store)
        \/ DeleteBook(p)
        \/ DeleteCountRemaining(p)
        \/ DeleteSeries(p)
        \/ DeleteFindSeries(p)
        \/ DeleteFindNext(p)
        \/ DeleteUpdateSeries(p)

DeleteRaceSpec == Init /\ [][DeleteRaceNext]_vars

\* one request at a time: imports, updates and deletes
EditNext ==
    \E p \in SeqProcs :
        \/ ImportScrape(p, EditAlbums, SeqUsers, Store)
        \/ ImportFindSeries(p)
        \/ ImportInsertSeries(p)
        \/ ImportUpdateSeries(p)
        \/ ImportInsertBook(p)
        \/ ImportReturn(p)
        \/ UpdateBook(p, SeqUsers, Store)
        \/ UpdateReturn(p)
        \/ DeleteFindBook(p, Store)
        \/ DeleteBook(p)
        \/ DeleteCountRemaining(p)
        \/ DeleteSeries(p)
        \/ DeleteFindSeries(p)
        \/ DeleteFindNext(p)
        \/ DeleteUpdateSeries(p)

EditSpec == Init /\ [][EditNext]_vars

\* create_user calls, one at a time
UserNext ==
    \E p \in SeqProcs :
        \/ CreateUserFind(p)
        \/ CreateUserInsert(p)
        \/ CreateUserReturn(p)

UserSpec == Init /\ [][UserNext]_vars

\* one request at a time, the updates by either user, while time passes
AuditNext ==
    \/ \E p \in SeqProcs :
        \/ ImportScrape(p, AuditAlbums, SeqUsers, Store)
        \/ ImportFindSeries(p)
        \/ ImportInsertSeries(p)
        \/ ImportInsertBook(p)
        \/ ImportReturn(p)
        \/ UpdateBook(p, Users, Store)
        \/ UpdateReturn(p)
    \/ Tick

AuditSpec == Init /\ [][AuditNext]_vars

\* ----------------------------------------------------------------- claims
\* vocabulary of the properties (independent of the operators of the model)
Done(p, name) == pc[p] = "done" /\ op[p] = name
Succeeded(p) == result[p].status = "ok"
Failed(p) == result[p].status = "error"

WithTitle(coll, title) == {s \in DOMAIN coll : coll[s].title = title}
WithIsbn(coll, isbn) == {b \in DOMAIN coll : coll[b].isbn = isbn}
Referencing(coll, sid) == {b \in DOMAIN coll : coll[b].series_id = sid}
GreatestNumber(coll, bs) ==
    CHOOSE n \in {coll[b].series_number : b \in bs} :
        \A b \in bs : coll[b].series_number <= n

\* the documents of `before` are all in `after`, unmodified
Kept(before, after) ==
    \A k \in DOMAIN before : k \in DOMAIN after /\ after[k] = before[k]

\* C1: a successful import of a record whose non-empty series title matches no
\* stored series adds exactly one series and exactly one book, and the new
\* book's series_id is the key of the new series.
C1_NewSeriesOneSeriesOneBook ==
    \A p \in SeqProcs :
        ( /\ Done(p, "import") /\ Succeeded(p)
          /\ album[p].series_title # ""
          /\ WithTitle(pre[p].series, album[p].series_title) = {} )
        => /\ Kept(pre[p].series, series) /\ Kept(pre[p].books, books)
           /\ Cardinality(DOMAIN series) = Cardinality(DOMAIN pre[p].series) + 1
           /\ Cardinality(DOMAIN books) = Cardinality(DOMAIN pre[p].books) + 1
           /\ \E s \in DOMAIN series \ DOMAIN pre[p].series :
              \E b \in DOMAIN books \ DOMAIN pre[p].books :
                /\ series[s].title = album[p].series_title
                /\ result[p].value = b
                /\ books[b].series_id = s

C1_Witness ==
    \E p \in SeqProcs :
        /\ Done(p, "import") /\ Succeeded(p)
        /\ album[p].series_title # ""
        /\ WithTitle(pre[p].series, album[p].series_title) = {}
        /\ DOMAIN pre[p].books # {}

\* C2: an import whose series title is that of a stored series and whose total
\* is larger than the stored total_books leaves total_books equal to the
\* scraped total and one series of that title; the new book references it.
C2_LargerTotalUpdatesExistingSeries ==
    \A p \in SeqProcs : \A s \in DOMAIN pre[p].series :
        ( /\ Done(p, "import")
          /\ album[p].series_title # ""
          /\ pre[p].series[s].title = album[p].series_title
          /\ pre[p].series[s].total_books # None
          /\ album[p].total_volumes > pre[p].series[s].total_books )
        => /\ s \in DOMAIN series
           /\ series[s].total_books = album[p].total_volumes
           /\ WithTitle(series, album[p].series_title) = {s}
           /\ Succeeded(p) =>
                /\ result[p].value \in DOMAIN books \ DOMAIN pre[p].books
                /\ books[result[p].value].series_id = s

C2_Witness ==
    \E p \in SeqProcs : \E s \in DOMAIN pre[p].series :
        /\ Done(p, "import") /\ Succeeded(p)
        /\ pre[p].series[s].title = album[p].series_title
        /\ pre[p].series[s].total_books = 1
        /\ album[p].total_volumes = 2

\* C3: delete_book of the only book that references a series removes the
\* series: afterwards neither the book nor the series is in the store.
C3_LastBookRemovesSeries ==
    \A p \in SeqProcs :
        ( /\ Done(p, "delete") /\ Succeeded(p)
          /\ loc[p].book_id \in DOMAIN pre[p].books
          /\ pre[p].books[loc[p].book_id].series_id # None
          /\ Referencing(pre[p].books, pre[p].books[loc[p].book_id].series_id)
                = {loc[p].book_id} )
        => /\ loc[p].book_id \notin DOMAIN books
           /\ pre[p].books[loc[p].book_id].series_id \notin DOMAIN series

C3_Witness ==
    \E p \in SeqProcs :
        /\ Done(p, "delete") /\ Succeeded(p)
        /\ loc[p].book_id \in DOMAIN pre[p].books
        /\ pre[p].books[loc[p].book_id].series_id \in DOMAIN pre[p].series
        /\ Referencing(pre[p].books, pre[p].books[loc[p].book_id].series_id)
                = {loc[p].book_id}

\* the delete of book b, one of exactly two books of series s, has completed
DeletedOneOfTwo(p, b, s, other) ==
    /\ Done(p, "delete") /\ Succeeded(p)
    /\ loc[p].book_id = b
    /\ b \in DOMAIN pre[p].books
    /\ s # None
    /\ b # other
    /\ Referencing(pre[p].books, s) = {b, other}

\* C4 as stated: with exactly two books in a series, deleting either leaves the
\* series with current_book equal to the remaining book's series_number,
\* whatever current_book was before.
C4_Original_CurrentIsRemaining ==
    \A p \in SeqProcs : \A b \in BookIds : \A other \in BookIds : \A s \in SeriesIds :
        DeletedOneOfTwo(p, b, s, other)
        => /\ s \in DOMAIN series
           /\ series[s].current_book = pre[p].books[other].series_number

\* C4 amended: the series stays; current_book becomes the remaining book's
\* series_number when it equalled the deleted book's series_number before the
\* call, and is unchanged otherwise.
C4_CurrentMovesOnlyFromDeleted ==
    \A p \in SeqProcs : \A b \in BookIds : \A other \in BookIds : \A s \in SeriesIds :
        DeletedOneOfTwo(p, b, s, other)
        => /\ s \in DOMAIN series
           /\ s \in DOMAIN pre[p].series
           /\ series[s].current_book =
                IF pre[p].series[s].current_book = pre[p].books[b].series_number
                    THEN pre[p].books[other].series_number
                    ELSE pre[p].series[s].current_book

C4_Witness ==
    \E p \in SeqProcs : \E b \in BookIds : \E other \in BookIds : \E s \in SeriesIds :
        /\ DeletedOneOfTwo(p, b, s, other)
        /\ pre[p].series[s].current_book = pre[p].books[b].series_number
        /\ pre[p].books[other].series_number # pre[p].books[b].series_number
        /\ series[s].current_book = pre[p].books[other].series_number

\* the delete of a book of series s has completed and s still has books;
\* before it, the store held every book ever imported (no earlier delete)
DeletedAfterImportsOnly(p, s) ==
    /\ Done(p, "delete") /\ Succeeded(p)
    /\ loc[p].book_id \in DOMAIN pre[p].books
    /\ pre[p].books[loc[p].book_id].series_id = s
    /\ Referencing(books, s) # {}
    /\ DOMAIN pre[p].books = 1..(nextBookId - 1)

\* C5 as stated: after imports and then a delete_book that leaves the series
\* other books, current_book is the greatest series_number of those books.
C5_Original_CurrentIsGreatest ==
    \A p \in SeqProcs : \A s \in SeriesIds :
        DeletedAfterImportsOnly(p, s)
        => /\ s \in DOMAIN series
           /\ series[s].current_book = GreatestNumber(books, Referencing(books, s))

\* C5 amended: current_book is the greatest series_number of the remaining
\* books when it equalled the deleted book's series_number before the delete,
\* and is left as it was otherwise (after any sequential history).
C5_CurrentRecomputedOnlyFromDeleted ==
    \A p \in SeqProcs : \A s \in SeriesIds :
        ( /\ Done(p, "delete") /\ Succeeded(p)
          /\ loc[p].book_id \in DOMAIN pre[p].books
          /\ pre[p].books[loc[p].book_id].series_id = s
          /\ Referencing(books, s) # {} )
        => /\ s \in DOMAIN series
           /\ s \in DOMAIN pre[p].series
           /\ series[s].current_book =
                IF pre[p].series[s].current_book
                        = pre[p].books[loc[p].book_id].series_number
                    THEN GreatestNumber(books, Referencing(books, s))
                    ELSE pre[p].series[s].current_book

C5_Witness ==
    \E p \in SeqProcs : \E s \in SeriesIds :
        /\ DeletedAfterImportsOnly(p, s)
        /\ Cardinality(Referencing(books, s)) = 2
        /\ pre[p].series[s].current_book = pre[p].books[loc[p].book_id].series_number
        /\ series[s].current_book # pre[p].series[s].current_book
        /\ \E b \in Referencing(books, s) :
                books[b].series_number < series[s].current_book

\* C6: under any interleaving of requests, with the unique index on the series
\* title in force, no two series records have the same title.
C6_SeriesTitlesUnique ==
    \A s1 \in DOMAIN series : \A s2 \in DOMAIN series :
        series[s1].title = series[s2].title => s1 = s2

\* a second insert of a stored title was attempted and rejected
C6_Witness ==
    \E p \in Procs :
        /\ Done(p, "import") /\ Failed(p)
        /\ album[p].series_title # ""
        /\ loc[p].series = "None"
        /\ WithTitle(series, album[p].series_title) # {}

\* C7: two concurrent imports of two pages of the same not yet stored series,
\* neither of which found the series when it looked it up, both succeed, and
\* both books reference the one series record.
C7_RacingImportsBothSucceed ==
    \A p \in Procs : \A q \in Procs :
        ( /\ p # q
          /\ Done(p, "import") /\ Done(q, "import")
          /\ album[p].series_title # ""
          /\ album[p].series_title = album[q].series_title
          /\ album[p].isbn # album[q].isbn
          /\ loc[p].series # "doc" /\ loc[q].series # "doc" )
        => /\ Succeeded(p) /\ Succeeded(q)
           /\ (result[p].value \in DOMAIN books /\ result[q].value \in DOMAIN books)
                => /\ books[result[p].value].series_id = books[result[q].value].series_id
                   /\ books[result[p].value].series_id \in DOMAIN series

\* C8: an import never changes the current_book of a series that existed when
\* it started, whatever series_number it scraped; only a series it creates
\* gets its current_book from the import.
C8_ImportKeepsCurrentBook ==
    \A p \in SeqProcs : \A s \in DOMAIN pre[p].series :
        Done(p, "import")
        => /\ s \in DOMAIN series
           /\ series[s].current_book = pre[p].series[s].current_book

C8_Witness ==
    \E p \in SeqProcs : \E s \in DOMAIN pre[p].series :
        /\ Done(p, "import") /\ Succeeded(p)
        /\ loc[p].series = "doc" /\ loc[p].series_id = s
        /\ series[s].total_books # pre[p].series[s].total_books
        /\ album[p].series_number # None
        /\ pre[p].series[s].current_book # None
        /\ album[p].series_number > pre[p].series[s].current_book

\* a book made from the same scraped record was in the store at the start
SameRecordStored(p, b) ==
    /\ Done(p, "import")
    /\ b \in DOMAIN pre[p].books
    /\ pre[p].books[b].isbn = album[p].isbn
    /\ pre[p].books[b].series_number = album[p].series_number
    /\ IF album[p].series_title = ""
        THEN pre[p].books[b].series_id = None
        ELSE /\ pre[p].books[b].series_id \in DOMAIN pre[p].series
             /\ pre[p].series[pre[p].books[b].series_id].title = album[p].series_title
             /\ pre[p].series[pre[p].books[b].series_id].total_books
                    = album[p].total_volumes

ExtractorFailed(p) ==
    /\ Done(p, "import") /\ Failed(p)
    /\ loc[p].e \in {ScrapeRaise(RequestException), ScrapeRaise(PageError)}

\* C10 as stated: the caller observes the extractor's error unchanged.
C10_Original_ErrorUnchanged ==
    \A p \in SeqProcs : ExtractorFailed(p) => result[p].error = loc[p].e

\* C10 amended: whatever fails, the caller observes a ValueError whose message
\* is "Failed to add scraped album: " followed by the text of the caught error;
\* fetch, parse and store failures have the same type and differ in that text.
C10_ErrorWrappedAsValueError ==
    \A p \in SeqProcs :
        (Done(p, "import") /\ Failed(p))
        => /\ result[p].error.type = "ValueError"
           /\ result[p].error.msg = <<"Failed to add scraped album: ">> \o loc[p].e.msg
           /\ (loc[p].e.type = "RequestException")
                => result[p].error.msg
                        = <<"Failed to add scraped album: ", "fetch failed">>

C10_Witness ==
    \E p \in SeqProcs :
        /\ ExtractorFailed(p)
        /\ loc[p].e.type = "RequestException"
        /\ DOMAIN books # {}

\* the import failed on a store operation: the store raised the exception caught
StoreFailed(p) ==
    /\ Done(p, "import") /\ Failed(p)
    /\ loc[p].e.type = "DuplicateKeyError"

C12_ReturnsStoredRecord ==
    \A p \in Procs :
        (Done(p, "import") /\ Succeeded(p))
        => /\ result[p].value # None
           /\ result[p].value = loc[p].book_id

\* the request issued operation c
Issued(p, c) == \E i \in 1..Len(calls[p]) : calls[p][i] = c

\* the import inserted a new series and ended, by a failure or by an abort of
\* its request, before its book was inserted
EndedBetweenSeriesAndBook(p) ==
    /\ op[p] = "import"
    /\ \/ pc[p] = "done" /\ Failed(p)
       \/ pc[p] = "cancelled"
    /\ loc[p].series = "InsertOneResult"
    /\ loc[p].book_id = None

\* C17: an import that fails or is aborted after it has inserted a new series
\* and before its book is inserted leaves that series in the store, with no
\* book referencing it; the series insert is not rolled back.
C17_OrphanSeriesStays ==
    \A p \in SeqProcs :
        EndedBetweenSeriesAndBook(p)
        => /\ loc[p].series_id \notin DOMAIN pre[p].series
           /\ loc[p].series_id \in DOMAIN series
           /\ series[loc[p].series_id].title = album[p].series_title
           /\ Referencing(books, loc[p].series_id) = {}
           /\ books = pre[p].books

C17_Witness ==
    \E p \in SeqProcs :
        /\ EndedBetweenSeriesAndBook(p)
        /\ pc[p] = "done"
        /\ Issued(p, "books.insert_one")
        /\ Referencing(books, loc[p].series_id) = {}

\* the import found series s, which was stored under its title at the start
FoundSeries(p, s) ==
    /\ Done(p, "import")
    /\ album[p].series_title # ""
    /\ s \in DOMAIN pre[p].series
    /\ pre[p].series[s].title = album[p].series_title

\* C18 as stated: when the import finds the series, every scraped total
\* (larger, smaller or unset) that differs from the stored total_books is the
\* stored total_books afterwards; when they are equal the series is not written.
C18_Original_EveryDifferenceWritten ==
    \A p \in SeqProcs : \A s \in SeriesIds :
        FoundSeries(p, s)
        => IF album[p].total_volumes # pre[p].series[s].total_books
             THEN s \in DOMAIN series /\ series[s].total_books = album[p].total_volumes
             ELSE series = pre[p].series /\ ~Issued(p, "book_series.update_one")

\* C18 amended: a scraped total that is set and differs from the stored
\* total_books (larger or smaller) is the stored total_books afterwards; when
\* the scraped total is unset, or equal to the stored one, the series record
\* is not written and keeps its total_books.
C18_SetDifferenceWritten ==
    \A p \in SeqProcs : \A s \in SeriesIds :
        FoundSeries(p, s)
        => IF /\ album[p].total_volumes # None
              /\ album[p].total_volumes # pre[p].series[s].total_books
             THEN /\ s \in DOMAIN series
                  /\ series[s].total_books = album[p].total_volumes
                  /\ Issued(p, "book_series.update_one")
             ELSE /\ series = pre[p].series
                  /\ ~Issued(p, "book_series.update_one")

C18_Witness ==
    \E p \in SeqProcs : \E s \in SeriesIds :
        /\ FoundSeries(p, s) /\ Succeeded(p)
        /\ album[p].total_volumes = None
        /\ pre[p].series[s].total_books = 2
        /\ series[s].total_books = 2

\* an operation on the series collection
SeriesCalls == {"book_series.find_one", "book_series.insert_one",
                "book_series.update_one", "book_series.delete_one"}

\* C20: an import of a record with an empty series_title reads and writes
\* nothing in the series collection and its book has series_id unset; with a
\* non-empty title the book's series_id is the key of the series found or
\* created, which carries that title.
C20_SeriesIdFollowsTitle ==
    \A p \in SeqProcs :
        /\ (Done(p, "import") /\ album[p].series_title = "")
            => /\ \A c \in SeriesCalls : ~Issued(p, c)
               /\ series = pre[p].series
               /\ Succeeded(p) => books[result[p].value].series_id = None
        /\ (Done(p, "import") /\ Succeeded(p) /\ album[p].series_title # "")
            => /\ Issued(p, "book_series.find_one")
               /\ books[result[p].value].series_id \in DOMAIN series
               /\ series[books[result[p].value].series_id].title = album[p].series_title
               /\ IF WithTitle(pre[p].series, album[p].series_title) # {}
                    THEN books[result[p].value].series_id
                            \in WithTitle(pre[p].series, album[p].series_title)
                    ELSE /\ books[result[p].value].series_id \notin DOMAIN pre[p].series
                         /\ Issued(p, "book_series.insert_one")

C20_Witness ==
    \E p \in SeqProcs :
        /\ Done(p, "import") /\ Succeeded(p)
        /\ album[p].series_title = ""
        /\ DOMAIN pre[p].series # {}
        /\ books[result[p].value].series_id = None

\* the $set of the update leaves document doc as it is
ChangesNothing(doc, update_data) ==
    \A k \in DOMAIN update_data : k \in DOMAIN doc /\ doc[k] = update_data[k]

\* C16 as stated: update_book fails, leaving every stored book unchanged, when
\* no stored book has the given identifier; when one has, it succeeds.
C16_Original_ExistingBookSucceeds ==
    \A p \in SeqProcs :
        Done(p, "update")
        => IF loc[p].book_id \in DOMAIN pre[p].books
             THEN Succeeded(p)
             ELSE Failed(p) /\ books = pre[p].books

\* C16 amended: update_book fails, leaving the store unchanged, when no stored
\* book has the identifier, and also when the book exists but the update
\* changes none of its fields (every supplied field, updated_by and the
\* updated_at stamp already have the values written); it succeeds when the
\* book exists and at least one field changes.
C16_FailsWhenNothingModified ==
    \A p \in SeqProcs :
        Done(p, "update")
        => IF /\ loc[p].book_id \in DOMAIN pre[p].books
              /\ ~ChangesNothing(pre[p].books[loc[p].book_id], loc[p].update_data)
             THEN /\ Succeeded(p)
                  /\ result[p].value = loc[p].book_id
                  /\ books[loc[p].book_id] # pre[p].books[loc[p].book_id]
             ELSE /\ Failed(p)
                  /\ result[p].error = UpdateBookRaise(NoChangesMade)
                  /\ books = pre[p].books
                  /\ series = pre[p].series

\* an existing book, a repeated update within the same clock reading: rejected
C16_Witness ==
    \E p \in SeqProcs :
        /\ Done(p, "update") /\ Failed(p)
        /\ loc[p].book_id \in DOMAIN pre[p].books
        /\ "status" \in DOMAIN loc[p].update_data
        /\ books = pre[p].books

\* the cover archiver was invoked by the request's scrape and failed
ArchiverFailed(p) ==
    /\ Issued(p, "_download_cover")
    /\ loc[p].outcome \in {"ConnectionError", "HTTPError", "UnidentifiedImageError",
                            "OSError"}

\* C13: a failure of the cover archiver (network error, non-2xx answer, image
\* decode error, file write error) does not surface: the scrape still returns
\* its record, with cover_path unset, and the import inserts the book and
\* succeeds (when nothing else, such as a stored isbn, makes it fail).
C13_ArchiverFailureAbsorbed ==
    \A p \in SeqProcs :
        (Done(p, "import") /\ ArchiverFailed(p))
        => /\ album[p].cover_path = NoPath
           /\ album[p].title = loc[p].page.title
           /\ album[p].isbn = loc[p].page.table["ISBN/EAN"]
           /\ album[p].cover_url # <<>>
           /\ loc[p].e.type \notin {"ConnectionError", "HTTPError",
                                     "UnidentifiedImageError", "OSError"}
           /\ WithIsbn(pre[p].books, album[p].isbn) = {}
                => /\ Succeeded(p)
                   /\ result[p].value \in DOMAIN books \ DOMAIN pre[p].books
                   /\ books[result[p].value].isbn = album[p].isbn

C13_Witness ==
    \E p \in SeqProcs :
        /\ Done(p, "import") /\ ArchiverFailed(p)
        /\ loc[p].outcome = "UnidentifiedImageError"
        /\ Succeeded(p)
        /\ DOMAIN pre[p].books # {}

\* both callers scraped a page and had its cover archived under the same key
BothArchived(p, q) ==
    /\ Done(p, "scrape") /\ Done(q, "scrape")
    /\ Succeeded(p) /\ Succeeded(q)
    /\ album[p].cover_path # <<>> /\ album[q].cover_path # <<>>
    /\ album[p].isbn = album[q].isbn

FrenchMonths == <<"janv.", "févr.", "mars", "avr.", "mai", "juin", "juil.", "août",
                  "sept.", "oct.", "nov.", "déc.">>
Digit == <<"0", "1", "2", "3", "4", "5", "6", "7", "8", "9">>
TwoDigits(n) == <<Digit[(n \div 10) + 1], Digit[(n % 10) + 1]>>

\* the request scraped a page whose date cell reads 'D M Y' (day, month
\* token, year) and that is well-formed otherwise
ScrapedDate(p, d, m, y) ==
    /\ Done(p, "scrape")
    /\ loc[p].page.fetch_ok /\ loc[p].page.has_h1
    /\ DOMAIN loc[p].page.table = {"ISBN/EAN", "Date de parution", "Nombre de pages"}
    /\ loc[p].page.table["Date de parution"] = <<d, m, y>>
    /\ loc[p].page.table["Nombre de pages"] = <<"4", "8">>

\* C15: a date 'D M Y' whose month token is one of the twelve abbreviated
\* French month names is extracted as Y-MM-DD, MM the number of the month on
\* two digits and the day padded with a zero to two digits; with any other
\* month token the scrape raises its parse error and returns no record.
C15_FrenchDateToIso ==
    \A p \in Procs : \A d \in Days : \A m \in MonthTokens : \A y \in Years :
        ScrapedDate(p, d, m, y)
        => IF \E n \in 1..12 : FrenchMonths[n] = m
             THEN /\ Succeeded(p)
                  /\ \E n \in 1..12 :
                        /\ FrenchMonths[n] = m
                        /\ album[p].publication_date =
                              y \o <<"-">> \o TwoDigits(n) \o <<"-">>
                                \o (IF Len(d) = 1 THEN <<"0">> \o d ELSE d)
                  /\ Len(album[p].publication_date) = Len(y) + 6
             ELSE /\ Failed(p)
                  /\ result[p].error.type = "ValueError"
                  /\ result[p].error.msg[1] = "Could not parse album information: "
                  /\ album[p] = NoAlbum

C15_Witness ==
    \E p \in Procs : \E q \in Procs :
        /\ ScrapedDate(p, <<"5">>, "août", <<"2", "0", "1", "5">>)
        /\ album[p].publication_date
                = <<"2", "0", "1", "5", "-", "0", "8", "-", "0", "5">>
        /\ ScrapedDate(q, <<"1", "2">>, "mars.", <<"2", "0", "1", "5">>)
        /\ Failed(q)

\* C19: a series created by an import has total_books equal to the scraped
\* total (unset when the page shows none), current_book equal to the scraped
\* volume number, the genre and language of the scrape, and status "ongoing".
C19_CreatedSeriesFields ==
    \A p \in SeqProcs :
        (Done(p, "import") /\ loc[p].series = "InsertOneResult")
        => /\ loc[p].series_id \notin DOMAIN pre[p].series
           /\ loc[p].series_id \in DOMAIN series
           /\ series[loc[p].series_id].title = loc[p].page.series_title
           /\ series[loc[p].series_id].total_books = loc[p].page.tome.total
           /\ series[loc[p].series_id].current_book = loc[p].page.tome.number
           /\ series[loc[p].series_id].genre = loc[p].page.themes
           /\ series[loc[p].series_id].language = "fr"
           /\ series[loc[p].series_id].status = "ongoing"

C19_Witness ==
    \E p \in SeqProcs :
        /\ Done(p, "import") /\ Succeeded(p)
        /\ loc[p].series = "InsertOneResult"
        /\ loc[p].page.tome = [number |-> 1, total |-> None]
        /\ loc[p].page.themes = <<"sf", "polar">>
        /\ series[loc[p].series_id].total_books = None
        /\ series[loc[p].series_id].current_book = 1

\* scrape_album returned a record to caller p
Scraped(p) == Done(p, "scrape") /\ Succeeded(p)

\* C21: scrape_album invokes _download_cover exactly when download_cover is
\* true and the record's cover_url and isbn are both non-empty; a scrape that
\* fails invokes it not at all; cover_path is set only when the archiver was
\* invoked and saved the image.
C21_ArchiverInvokedExactlyWhen ==
    \A p \in Procs :
        /\ Scraped(p)
            => /\ Issued(p, "_download_cover")
                    <=> ( /\ loc[p].download_cover
                          /\ album[p].cover_url # <<>>
                          /\ album[p].isbn # "" )
               /\ album[p].cover_path # NoPath
                    => Issued(p, "_download_cover") /\ loc[p].outcome = "saved"
        /\ (Done(p, "scrape") /\ Failed(p)) => ~Issued(p, "_download_cover")

C21_Witness ==
    \E p \in Procs : \E q \in Procs :
        /\ Scraped(p) /\ loc[p].download_cover
        /\ album[p].cover_url # <<>> /\ album[p].isbn = ""
        /\ ~Issued(p, "_download_cover")
        /\ Scraped(q) /\ Issued(q, "_download_cover")
        /\ album[q].cover_url = <<"https://www.bubblebd.com">>
        /\ album[q].cover_path # NoPath

\* caller p scraped a page that was fetched and has its h1 title
ScrapedTitledPage(p) ==
    /\ Done(p, "scrape")
    /\ loc[p].page.fetch_ok /\ loc[p].page.has_h1

\* C22: on a page with a title and no characteristics table, scrape_album
\* does not fail: the record it returns has an empty isbn, the publisher
\* "Delcourt", 0 pages and an empty publication date.
C22_MissingTableYieldsDefaults ==
    \A p \in Procs :
        (ScrapedTitledPage(p) /\ loc[p].page.table = EmptyDict)
        => /\ Succeeded(p)
           /\ album[p].isbn = ""
           /\ album[p].publisher = "Delcourt"
           /\ album[p].pages = 0
           /\ album[p].publication_date = <<>>

\* the page-count cells offered that int() accepts, and the integers they denote
CellValue == (<<"4", "8">> :> 48) @@ (<<"0">> :> 0) @@ (<<"-", "5">> :> (0 - 5))

\* caller p scraped a titled page whose date row is a day, a month name of
\* the table, and a year
ScrapedDatedPage(p) ==
    /\ ScrapedTitledPage(p)
    /\ "Date de parution" \in DOMAIN loc[p].page.table
    /\ Len(loc[p].page.table["Date de parution"]) = 3
    /\ \E m \in 1..12 : loc[p].page.table["Date de parution"][2] = FrenchMonths[m]

HasPageCountRow(p) == "Nombre de pages" \in DOMAIN loc[p].page.table
PageCountCell(p) == loc[p].page.table["Nombre de pages"]

\* C23 as stated: a page-count cell that is no integer gives a record with
\* page_count 0, and page_count is non-negative in every record returned.
C23_Original_UnparsableCountIsZero ==
    \A p \in Procs :
        /\ ( /\ ScrapedDatedPage(p) /\ HasPageCountRow(p)
              /\ PageCountCell(p) \notin DOMAIN CellValue )
            => Succeeded(p) /\ album[p].pages = 0
        /\ Scraped(p) => album[p].pages >= 0

\* C23 amended: page_count is 0 when the table has no page-count row; a cell
\* that is an integer literal gives that integer (negative when the literal
\* is); a cell that is no integer literal makes scrape_album fail with the
\* ValueError "Could not parse album information: ...".
C23_UnparsableCountFails ==
    \A p \in Procs :
        ScrapedDatedPage(p)
        => IF ~HasPageCountRow(p)
             THEN Succeeded(p) /\ album[p].pages = 0
             ELSE IF PageCountCell(p) \in DOMAIN CellValue
                    THEN Succeeded(p) /\ album[p].pages = CellValue[PageCountCell(p)]
                    ELSE /\ Failed(p)
                         /\ result[p].error.type = "ValueError"
                         /\ result[p].error.msg[1] = "Could not parse album information: "
                         /\ loc[p].e.type = "ValueError"

C23_Witness ==
    \E p \in Procs : \E q \in Procs :
        /\ ScrapedDatedPage(p) /\ HasPageCountRow(p)
        /\ PageCountCell(p) = <<"n", "c">> /\ Failed(p)
        /\ ScrapedDatedPage(q) /\ ~HasPageCountRow(q)
        /\ Succeeded(q) /\ album[q].pages = 0

\* the audit fields update_book stamps
AuditFields == {"updated_by", "updated_at"}

\* update_book by p succeeded on book b
Updated(p, b) ==
    /\ Done(p, "update") /\ Succeeded(p)
    /\ loc[p].book_id = b

\* C24: after a successful update_book the stored book has every supplied
\* field at the supplied value, updated_by is the calling user and updated_at
\* the time of the call, every other field (created_by and created_at among
\* them) is as before, and no other book and no series record has changed.
C24_UpdateMergesFields ==
    \A p \in SeqProcs : \A b \in BookIds :
        Updated(p, b)
        => /\ b \in DOMAIN pre[p].books
           /\ DOMAIN books = DOMAIN pre[p].books
           /\ DOMAIN books[b] = DOMAIN pre[p].books[b] \cup DOMAIN loc[p].update_data
           /\ \A k \in DOMAIN loc[p].update_data \ AuditFields :
                books[b][k] = loc[p].update_data[k]
           /\ books[b].updated_by = loc[p].user_id
           /\ books[b].updated_at = loc[p].update_data["updated_at"]
           /\ books[b].updated_at >= pre[p].books[b].updated_at
           /\ books[b].updated_at <= now
           /\ \A k \in DOMAIN pre[p].books[b] \ (DOMAIN loc[p].update_data \cup AuditFields) :
                books[b][k] = pre[p].books[b][k]
           /\ books[b].created_by = pre[p].books[b].created_by
           /\ books[b].created_at = pre[p].books[b].created_at
           /\ \A o \in DOMAIN books \ {b} : books[o] = pre[p].books[o]
           /\ series = pre[p].series

\* a book created by u1 is updated by u2 at a later time, next to another
\* book and a series
C24_Witness ==
    \E p \in SeqProcs : \E b \in BookIds :
        /\ Updated(p, b)
        /\ loc[p].user_id = "u2" /\ books[b].created_by = "u1"
        /\ "status" \in DOMAIN loc[p].update_data
        /\ books[b].status = "owned" /\ pre[p].books[b].status = "wanted"
        /\ books[b].updated_at > pre[p].books[b].updated_at
        /\ DOMAIN books # {b}
        /\ series # <<>>

\* delete_book by p was called with an identifier no stored book had
DeletedAbsentBook(p) ==
    /\ Done(p, "delete")
    /\ loc[p].book_id \notin DOMAIN pre[p].books

\* C25: delete_book with an identifier that matches no stored book fails and
\* leaves the books and the series collection unchanged, and
\* DELETE /books/{book_id} answers with an error status, not with the success
\* message.
C25_DeleteAbsentBookFails ==
    \A p \in SeqProcs :
        DeletedAbsentBook(p)
        => /\ Failed(p)
           /\ books = pre[p].books
           /\ series = pre[p].series
           /\ RouteStatus(result[p]) # HTTP_200_OK
           /\ RouteStatus(result[p]) \in {HTTP_400_BAD_REQUEST,
                                          HTTP_500_INTERNAL_SERVER_ERROR}

\* the store holds a book and a series when the absent book is asked for
C25_Witness ==
    \E p \in SeqProcs :
        /\ DeletedAbsentBook(p) /\ Failed(p)
        /\ books # <<>> /\ series # <<>>
        /\ calls[p] = <<"books.find_one">>
        /\ RouteStatus(result[p]) = HTTP_400_BAD_REQUEST

\* the operations on the store
StoreCalls == SeriesCalls \cup {"books.find_one", "books.insert_one",
                                "books.update_one", "books.delete_one",
                                "books.count_documents"}

\* the import by p failed on an error scrape_album raised: the page could not
\* be fetched, or could not be parsed
ExtractionFailed(p) ==
    /\ Done(p, "import") /\ Failed(p)
    /\ \/ loc[p].e.type = "RequestException"
       \/ /\ loc[p].e.type = "ValueError"
          /\ loc[p].e.msg[1] = "Could not parse album information: "

\* C26: an import whose extraction fails (fetch or parse error) issues no
\* store operation: it neither reads nor writes a series, inserts no book,
\* and the store afterwards is the store before.
C26_FailedExtractionTouchesNothing ==
    \A p \in SeqProcs :
        ExtractionFailed(p)
        => /\ \A i \in 1..Len(calls[p]) : calls[p][i] \notin StoreCalls
           /\ books = pre[p].books
           /\ series = pre[p].series

\* a fetch error and a parse error, each with a book and a series in the store
C26_Witness ==
    \E p \in SeqProcs :
        /\ ExtractionFailed(p)
        /\ loc[p].e.type = "ValueError"
        /\ loc[p].page.table = EmptyDict
        /\ books # <<>> /\ series # <<>>

\* no request is in flight
Quiescent == \A p \in Procs : pc[p] \in {"idle", "done"}

\* C27: in every quiescent state reached by interleaved imports and deletes,
\* every stored book whose series_id is set references a stored series.
C27_SeriesReferencesResolve ==
    Quiescent
    => \A b \in DOMAIN books :
            books[b].series_id # None => books[b].series_id \in DOMAIN series

\* p and q have each completed a delete_book call, on the two books that were
\* the only books of series s when p's call began
DeletedBothOfTwo(p, q, s) ==
    /\ p # q
    /\ Done(p, "delete") /\ Done(q, "delete")
    /\ loc[p].book_id # loc[q].book_id
    /\ Referencing(pre[p].books, s) = {loc[p].book_id, loc[q].book_id}

\* C28: two delete_book calls on the only two books of a series, however their
\* store operations interleave, both succeed, and once both have completed
\* the two books and the series record are gone.
C28_ConcurrentDeletesRemoveSeries ==
    \A p \in Procs : \A q \in Procs : \A s \in SeriesIds :
        DeletedBothOfTwo(p, q, s)
        => /\ Succeeded(p) /\ Succeeded(q)
           /\ loc[p].book_id \notin DOMAIN books
           /\ loc[q].book_id \notin DOMAIN books
           /\ s \notin DOMAIN series

\* the two calls overlapped: each counted no remaining book, so both went on
\* to delete the series
C28_Witness ==
    \E p \in Procs : \E q \in Procs : \E s \in SeriesIds :
        /\ DeletedBothOfTwo(p, q, s)
        /\ s \in DOMAIN pre[p].series /\ s \in DOMAIN pre[q].series
        /\ Issued(p, "book_series.delete_one")
        /\ Issued(q, "book_series.delete_one")

\* delete_book by p succeeded on book b, which referenced s (or None)
Deleted(p, b, s) ==
    /\ Done(p, "delete") /\ Succeeded(p)
    /\ loc[p].book_id = b
    /\ b \in DOMAIN pre[p].books
    /\ pre[p].books[b].series_id = s

\* exactly book b has gone, every other book is as before
OnlyBookRemoved(p, b) ==
    /\ DOMAIN books = DOMAIN pre[p].books \ {b}
    /\ \A o \in DOMAIN books : books[o] = pre[p].books[o]

\* the series' pointer named the deleted book's number
PointerOnDeleted(p, b, s) ==
    pre[p].series[s].current_book = pre[p].books[b].series_number

\* C29 as stated: delete_book writes the series record only when its
\* current_book equals the deleted book's series_number and other books
\* remain; when they differ, or the book has no series_id, the series
\* collection is unchanged; exactly the targeted book is removed.
C29_Original_SeriesUnchangedWhenDiffer ==
    \A p \in SeqProcs : \A b \in BookIds : \A s \in SeriesIds \cup {None} :
        Deleted(p, b, s)
        => /\ OnlyBookRemoved(p, b)
           /\ Issued(p, "book_series.update_one")
                => /\ s \in DOMAIN pre[p].series
                   /\ PointerOnDeleted(p, b, s)
                   /\ Referencing(pre[p].books, s) # {b}
           /\ (s = None \/ (s \in DOMAIN pre[p].series /\ ~PointerOnDeleted(p, b, s)))
                => series = pre[p].series

\* C29 amended: exactly the targeted book is removed; the series collection
\* is unchanged when the book has no series_id, and when other books of its
\* series remain and the series' current_book differs from the deleted book's
\* series_number; when other books remain and the two are equal the series
\* record is written (current_book becomes the greatest remaining number);
\* when no book of the series remains the series record is removed, whether
\* or not its current_book named the deleted book.
C29_SeriesWrittenOrRemoved ==
    \A p \in SeqProcs : \A b \in BookIds : \A s \in SeriesIds \cup {None} :
        Deleted(p, b, s)
        => /\ OnlyBookRemoved(p, b)
           /\ s # None => s \in DOMAIN pre[p].series
           /\ IF s = None
                THEN /\ series = pre[p].series
                     /\ \A c \in SeriesCalls : ~Issued(p, c)
                ELSE IF Referencing(pre[p].books, s) = {b}
                THEN /\ DOMAIN series = DOMAIN pre[p].series \ {s}
                     /\ \A t \in DOMAIN series : series[t] = pre[p].series[t]
                     /\ ~Issued(p, "book_series.update_one")
                ELSE IF PointerOnDeleted(p, b, s)
                THEN /\ Issued(p, "book_series.update_one")
                     /\ DOMAIN series = DOMAIN pre[p].series
                     /\ series[s].current_book
                            = GreatestNumber(books, Referencing(books, s))
                     /\ \A t \in DOMAIN series \ {s} : series[t] = pre[p].series[t]
                ELSE /\ series = pre[p].series
                     /\ ~Issued(p, "book_series.update_one")

\* the last book of a series is deleted after an update gave it a number
\* the series' current_book does not name: the series is removed
C29_Witness ==
    \E p \in SeqProcs : \E b \in BookIds : \E s \in SeriesIds :
        /\ Deleted(p, b, s)
        /\ s \in DOMAIN pre[p].series
        /\ ~PointerOnDeleted(p, b, s)
        /\ Referencing(pre[p].books, s) = {b}
        /\ s \notin DOMAIN series

\* the users stored under the username, under the email
WithUsername(coll, username) == {u \in DOMAIN coll : coll[u].username = username}
WithEmail(coll, email) == {u \in DOMAIN coll : coll[u].email = email}

\* create_user by p was given a username or an email a stored user had
CreatedClashingUser(p) ==
    /\ Done(p, "create_user")
    /\ \/ WithUsername(pre[p].users, loc[p].user.username) # {}
       \/ WithEmail(pre[p].users, loc[p].user.email) # {}

\* C30: with create_user calls run one at a time, no two stored users share a
\* username and no two share an email; a create_user whose username or email
\* is that of a stored user is rejected with status code 400 and leaves the
\* users collection unchanged.
C30_UsernamesAndEmailsUnique ==
    /\ \A u \in DOMAIN users : \A v \in DOMAIN users :
            u # v => /\ users[u].username # users[v].username
                     /\ users[u].email # users[v].email
    /\ \A p \in SeqProcs :
            CreatedClashingUser(p)
            => /\ Failed(p)
               /\ result[p].error.status_code = 400
               /\ users = pre[p].users

\* a new username with the email of a stored user is rejected, two users stored
C30_Witness ==
    \E p \in SeqProcs :
        /\ CreatedClashingUser(p) /\ Failed(p)
        /\ WithUsername(users, loc[p].user.username) = {}
        /\ WithEmail(users, loc[p].user.email) # {}
        /\ Cardinality(DOMAIN users) = 2

====
